---- MODULE Spec2Model ----
(***************************************************************************)
(* DecisionTrace: the hash-chained, append-only decision log.              *)
(*                                                                         *)
(* The store is the JSON-lines file LOG_FILE, held as the sequence of its  *)
(* lines.  A line is a JSON text; Python values and JSON texts are kept    *)
(* apart, so that json.dumps / json.loads / DecisionRecord(...).json() are *)
(* conversions and not identities.  SHA-256 is a free (collision-free)     *)
(* constructor over the bytes it digests.                                  *)
(***************************************************************************)
EXTENDS Integers, Sequences, FiniteSets, TLC

(* ---- bounds of the model ---- *)
MaxLen == 3
MaxCorrupt == 1
MaxCalls == 4
MaxBytes == 4

(* ======================= Python values ================================= *)
PNone == [t |-> "none"]
PInt(n) == [t |-> "int", n |-> n]
PFloat(n) == [t |-> "float", n |-> n]
PStr(s) == [t |-> "str", s |-> s]
PList(q) == [t |-> "list", q |-> q]
PDict(f) == [t |-> "dict", f |-> f]

IsDict(v) == v.t = "dict"
HasKey(v, k) == k \in DOMAIN v.f

(* hashlib.sha256(b).hexdigest(): a str value determined by the bytes b *)
Sha256(b) == [t |-> "str", sha |-> b]
Genesis == [t |-> "str", sha0 |-> "genesis_block"]

(* str(uuid4()) and the creation-time text of the k-th record constructed *)
Uuid(k) == [t |-> "str", uuid |-> k]
Timestamp(k) == [t |-> "str", ts |-> k]

(* ======================= JSON texts ==================================== *)
JNull == [j |-> "null"]
JNum(n, frac) == [j |-> "num", n |-> n, frac |-> frac]
JString(s) == [j |-> "string", s |-> s]
JArray(q) == [j |-> "array", q |-> q]
JObject(m) == [j |-> "object", m |-> m]
JInvalid == [j |-> "invalid"]

(* lexicographic order of every key that occurs, as sort_keys=True sorts *)
KeyOrder ==
  << "confidence", "config", "context_sources", "decision_id", "hash", "model",
     "output", "prev_hash", "prompt", "risk_flags", "temp", "timestamp" >>

(* field order of the record model, as its .json() emits them *)
FieldOrder ==
  << "decision_id", "timestamp", "model", "config", "prompt", "context_sources",
     "output", "confidence", "risk_flags", "prev_hash", "hash" >>

Range(q) == { q[i] : i \in 1..Len(q) }
Fields == Range(FieldOrder)

SortKeys(S) == SelectSeq(KeyOrder, LAMBDA k : k \in S)

(* json.dumps(v, sort_keys=True) *)
RECURSIVE Dumps(_)
Dumps(v) ==
  CASE v.t = "none" -> JNull
    [] v.t = "int" -> JNum(v.n, FALSE)
    [] v.t = "float" -> JNum(v.n, TRUE)
    [] v.t = "str" -> JString(v)
    [] v.t = "list" -> JArray([i \in 1..Len(v.q) |-> Dumps(v.q[i])])
    [] v.t = "dict" ->
         LET ks == SortKeys(DOMAIN v.f)
         IN JObject([i \in 1..Len(ks) |-> <<ks[i], Dumps(v.f[ks[i]])>>])

(* json.dumps(d) of a dict d whose top-level keys were inserted in `order` *)
DumpsInOrder(f, order) ==
  LET ks == SelectSeq(order, LAMBDA k : k \in DOMAIN f)
  IN JObject([i \in 1..Len(ks) |-> <<ks[i], Dumps(f[ks[i]])>>])

(* json.loads(text): ok = FALSE stands for json.JSONDecodeError *)
RECURSIVE LoadsValue(_)
LoadsValue(x) ==
  CASE x.j = "null" -> PNone
    [] x.j = "num" -> IF x.frac THEN PFloat(x.n) ELSE PInt(x.n)
    [] x.j = "string" -> x.s
    [] x.j = "array" -> PList([i \in 1..Len(x.q) |-> LoadsValue(x.q[i])])
    [] x.j = "object" ->
         LET keys == { x.m[i][1] : i \in 1..Len(x.m) }
             last(k) == CHOOSE i \in 1..Len(x.m) :
                          /\ x.m[i][1] = k
                          /\ \A i2 \in 1..Len(x.m) : x.m[i2][1] = k => i2 <= i
         IN PDict([k \in keys |-> LoadsValue(x.m[last(k)][2])])

Loads(text) ==
  IF text.j = "invalid" THEN [ok |-> FALSE]
  ELSE [ok |-> TRUE, v |-> LoadsValue(text)]

(* the order in which a parsed dict lists its top-level keys *)
KeysOf(text) == [i \in 1..Len(text.m) |-> text.m[i][1]]

(* ======================= hasher.py ===================================== *)

(* d restricted to the keys other than 'hash' *)
Hashable(d) == [k \in (DOMAIN d) \ {"hash"} |-> d[k]]

(* calculate_hash(record_data): record_data is the dict d *)
CalculateHash(d) == Sha256(Dumps(PDict(Hashable(d))))

(* get_last_hash with the backward seek lost: readline starts at offset 0 *)
GetLastHashFromStart(lines) ==
  IF lines = <<>> THEN [raised |-> FALSE, h |-> Genesis]
  ELSE LET r == Loads(lines[1])
       IN IF ~r.ok THEN [raised |-> FALSE, h |-> Genesis]
          ELSE IF ~IsDict(r.v) THEN [raised |-> TRUE, h |-> Genesis]
          ELSE IF HasKey(r.v, "hash") THEN [raised |-> FALSE, h |-> r.v.f["hash"]]
          ELSE [raised |-> FALSE, h |-> Genesis]

(* get_last_hash() on a file with these lines; raised stands for the         *)
(* AttributeError of last_record.get on a JSON value that is not an object.  *)
GetLastHash(lines) ==
  IF lines = <<>> THEN [raised |-> FALSE, h |-> Genesis]
  ELSE LET last_line == lines[Len(lines)]
           r == Loads(last_line)
       IN IF ~r.ok THEN [raised |-> FALSE, h |-> Genesis]
          ELSE IF ~IsDict(r.v) THEN [raised |-> TRUE, h |-> Genesis]
          ELSE IF HasKey(r.v, "hash") THEN [raised |-> FALSE, h |-> r.v.f["hash"]]
          ELSE [raised |-> FALSE, h |-> Genesis]

(* an empty or absent log reported as a failure *)
VerifyStartInvalid ==
  [outcome |-> "returned", is_valid |-> FALSE, previous_hash |-> Genesis,
   findings |-> {}, scanned |-> 0]

(* the loop state of verify_chain before the first line *)
VerifyStart ==
  [outcome |-> "returned", is_valid |-> TRUE, previous_hash |-> Genesis,
   findings |-> {}, scanned |-> 0]

(* is_valid after a failed check on a line *)
MarkInvalid(is_valid) == FALSE

(* the hash verify_chain carries to the next line *)
(* the next expected prev_hash taken from the stored hash field *)
NextPreviousStored(recalculated_hash, record) == record["hash"]

NextPrevious(recalculated_hash, record) == recalculated_hash

(* one iteration of the loop of verify_chain on line number i *)
VerifyLineChecks(st, i, line) ==
  LET r == Loads(line)
  IN IF ~r.ok
     THEN [st EXCEPT !.is_valid = MarkInvalid(@),
                     !.findings = @ \cup {<<i, "json">>},
                     !.scanned = i]
     ELSE IF ~IsDict(r.v) \/ ~HasKey(r.v, "prev_hash")
     THEN [st EXCEPT !.outcome = "raised"]
     ELSE
       LET record == r.v.f
           link == record["prev_hash"] # st.previous_hash
           st1 == IF link
                  THEN [st EXCEPT !.is_valid = MarkInvalid(@),
                                  !.findings = @ \cup {<<i, "link">>}]
                  ELSE st
           recalculated_hash == CalculateHash(record)
       IN IF ~HasKey(r.v, "hash")
          THEN [st1 EXCEPT !.outcome = "raised"]
          ELSE
            LET tamper == record["hash"] # recalculated_hash
                st2 == IF tamper
                       THEN [st1 EXCEPT !.is_valid = MarkInvalid(@),
                                        !.findings = @ \cup {<<i, "tamper">>}]
                       ELSE st1
            IN [st2 EXCEPT !.previous_hash = NextPrevious(recalculated_hash, record),
                           !.scanned = i]

(* the loop body with is_valid assigned from this line's checks alone, so   *)
(* that a passing line resets an earlier failure                            *)
VerifyLineResets(st, i, line) ==
  LET r == VerifyLineChecks(st, i, line)
  IN IF r.outcome = "returned" /\ r.findings = st.findings
     THEN [r EXCEPT !.is_valid = TRUE]
     ELSE r

(* the loop body with previous_hash reset to the genesis hash on a line     *)
(* that does not decode                                                     *)
VerifyLineGapResets(st, i, line) ==
  LET r == VerifyLineChecks(st, i, line)
  IN IF ~Loads(line).ok THEN [r EXCEPT !.previous_hash = Genesis] ELSE r

VerifyLine(st, i, line) == VerifyLineChecks(st, i, line)

RECURSIVE VerifyLoop(_, _, _)
VerifyLoop(lines, i, st) ==
  IF i > Len(lines) \/ st.outcome = "raised" THEN st
  ELSE VerifyLoop(lines, i + 1, VerifyLine(st, i, lines[i]))

(* verify_chain() on a file with these lines: outcome "returned" with        *)
(* is_valid, or "raised" (KeyError / TypeError) after `scanned` whole lines  *)
VerifyChain(lines) ==
  IF lines = <<>> THEN VerifyStart
  ELSE VerifyLoop(lines, 1, VerifyStart)

(* ======================= record model ================================== *)

RequiredFields ==
  {"model", "config", "prompt", "context_sources", "output", "prev_hash", "hash"}

(* the type each field of DecisionRecord accepts *)
FieldAccepts(k, v) ==
  CASE k \in {"config"} -> v.t = "dict"
    [] k \in {"context_sources", "risk_flags"} -> v.t = "list"
    [] k = "confidence" -> v.t \in {"none", "int", "float"}
    [] OTHER -> v.t = "str"

(* the DecisionRecord constructor and parse_obj accept data *)
RecordValid(data) ==
  /\ RequiredFields \subseteq DOMAIN data
  /\ \A k \in (DOMAIN data) \cap Fields : FieldAccepts(k, data[k])

(* the value the record holds for field k: identity and time are generated  *)
(* when absent (k-th record constructed), confidence is a floating value,   *)
(* risk_flags defaults to the empty sequence                                *)
FieldValue(data, k, n) ==
  CASE k = "decision_id" -> IF k \in DOMAIN data THEN data[k] ELSE Uuid(n)
    [] k = "timestamp" -> IF k \in DOMAIN data THEN data[k] ELSE Timestamp(n)
    [] k = "confidence" ->
         IF k \notin DOMAIN data THEN PNone
         ELSE IF data[k].t = "int" THEN PFloat(data[k].n) ELSE data[k]
    [] k = "risk_flags" -> IF k \in DOMAIN data THEN data[k] ELSE PList(<<>>)
    [] OTHER -> data[k]

(* the DecisionRecord constructor: the fields of the validated record *)
DecisionRecord(data, n) == [k \in Fields |-> FieldValue(data, k, n)]

(* record.json(): the record's fields in the model's field order *)
RecordJson(record) == DumpsInOrder(record, FieldOrder)

(* ======================= logger.py ===================================== *)

CandidateKeys ==
  {"model", "config", "prompt", "context_sources", "output", "confidence",
   "risk_flags"}

(* partial_data of log_decision for the call's arguments c *)
PartialData(c, prev_hash) ==
  [k \in CandidateKeys \cup {"prev_hash"} |->
     CASE k = "prev_hash" -> prev_hash
       [] k = "risk_flags" ->
            IF c[k].t = "none" \/ c[k] = PList(<<>>) THEN PList(<<>>) ELSE c[k]
       [] OTHER -> c[k]]

(* record_data_for_hashing: partial_data plus the generated id and time *)
RecordDataForHashing(c, prev_hash, n) ==
  LET partial_data == PartialData(c, prev_hash)
      temp_record == DecisionRecord(("hash" :> PStr("dummy_hash")) @@ partial_data, n)
  IN ("decision_id" :> temp_record["decision_id"])
       @@ ("timestamp" :> temp_record["timestamp"])
       @@ partial_data

(* final_record of log_decision *)
FinalRecord(c, prev_hash, n) ==
  LET current_hash == CalculateHash(RecordDataForHashing(c, prev_hash, n))
  IN DecisionRecord(("hash" :> current_hash) @@ RecordDataForHashing(c, prev_hash, n), n)

(* ======================= replay.py ===================================== *)

NotFound == [outcome |-> "notfound", line |-> 0]

RECURSIVE ReplayLoop(_, _, _)
ReplayLoop(lines, i, decision_id) ==
  IF i > Len(lines) THEN NotFound
  ELSE LET r == Loads(lines[i])
       IN IF ~r.ok THEN ReplayLoop(lines, i + 1, decision_id)
          ELSE IF ~IsDict(r.v) THEN [outcome |-> "raised", line |-> i]
          ELSE IF HasKey(r.v, "decision_id") /\ r.v.f["decision_id"] = decision_id
          THEN IF RecordValid(r.v.f)
               THEN [outcome |-> "found", line |-> i,
                     record |-> DecisionRecord(r.v.f, 0)]
               ELSE [outcome |-> "raised", line |-> i]
          ELSE ReplayLoop(lines, i + 1, decision_id)

(* replay_decision returning from inside the loop after the first line *)
ReplayFirstLineOnly(lines, decision_id) ==
  IF lines = <<>> THEN NotFound
  ELSE LET r == ReplayLoop(<<lines[1]>>, 1, decision_id) IN r

(* replay_decision(decision_id) on a file with these lines *)
ReplayDecision(lines, decision_id) ==
  IF lines = <<>> THEN NotFound ELSE ReplayLoop(lines, 1, decision_id)

(* ======================= state ========================================= *)

VARIABLES
  store,       \* the lines of LOG_FILE, in file order
  nextId,      \* how many records have been constructed, plus one
  ret,         \* outcome of the last log_decision call
  report,      \* outcome of the last verify_chain call on the present store
  found,       \* outcome of the last replay_decision call on the present store
  pc,          \* per appender: "idle", or "read" between its tail read and its write
  prev,        \* per appender: prev_hash, the tail hash it read
  cand,        \* per appender: the arguments of its call
  tamperedAt,  \* line number of the last edit made outside the appender, or 0
  ncorrupt,    \* number of edits made outside the appender
  scan         \* a read of the file in progress, byte by byte: its file, offset, step

vars ==
  <<store, nextId, ret, report, found, pc, prev, cand, tamperedAt, ncorrupt, scan>>

Procs == {1, 2}

(* arguments of log_decision calls *)
Confidences == {PNone, PInt(1), PFloat(1)}
RiskFlags == {PNone, PList(<<PStr("r1")>>)}

Candidate(cf, rf) ==
  [model |-> PStr("m1"), config |-> PDict([temp |-> PInt(1)]), prompt |-> PStr("p1"),
   context_sources |-> PList(<<PStr("c1")>>), output |-> PStr("o1"),
   confidence |-> cf, risk_flags |-> rf]

Candidates == { Candidate(cf, rf) : cf \in Confidences, rf \in RiskFlags }

NoRet == [outcome |-> "none"]
NoReport == [outcome |-> "none"]
NoFound == [outcome |-> "none"]

(* no byte-level read in progress *)
NoScan == [mode |-> "none"]

(* no log file yet, no call made yet *)
InitCalls ==
  /\ store = <<>>
  /\ nextId = 1
  /\ ret = NoRet
  /\ report = NoReport
  /\ found = NoFound
  /\ pc = [p \in Procs |-> "idle"]
  /\ prev = [p \in Procs |-> Genesis]
  /\ cand = [p \in Procs |-> Candidate(PNone, PNone)]
  /\ tamperedAt = 0
  /\ ncorrupt = 0

Init == InitCalls /\ scan = NoScan

(* ======================= operations ==================================== *)

(* the mode in which each reader opens LOG_FILE *)
TailOpenMode == "rb"
VerifyOpenModeWrite == "w"
VerifyOpenMode == "r"
ReplayOpenMode == "r"

(* the content of the file once open(LOG_FILE, mode) has returned *)
Opened(lines, mode) == IF mode \in {"w", "wb"} THEN <<>> ELSE lines

(* the first bytes of a record line, cut before its end: no closing brace,  *)
(* no newline                                                               *)
JPartial == [j |-> "invalid", partial |-> TRUE]

(* the line has no newline at its end *)
Unterminated(line) == "partial" \in DOMAIN line

(* the file after f.write(line + "\n") in mode "a" wrote every byte: the    *)
(* bytes go to the end of the file, where they make a new line, or lengthen *)
(* a final line that has no newline                                         *)
AppendLine(lines, line) ==
  IF lines # <<>> /\ Unterminated(lines[Len(lines)])
  THEN [lines EXCEPT ![Len(lines)] = JInvalid]
  ELSE Append(lines, line)

(* how much of the line the file holds when the write fails *)
FailedWrites == {"none", "part"}

(* the file after a write that failed with `accepted` of the bytes written *)
FailedAppend(lines, accepted) ==
  IF accepted = "none" \/ (lines # <<>> /\ Unterminated(lines[Len(lines)]))
  THEN lines
  ELSE Append(lines, JPartial)

(* the write of log_decision: one line appended, the record returned *)
AppendRecord(c, prev_hash) ==
  LET final_record == FinalRecord(c, prev_hash, nextId)
  IN /\ store' = AppendLine(store, RecordJson(final_record))
     /\ nextId' = nextId + 1
     /\ ret' = [outcome |-> "logged", prev_hash |-> prev_hash, record |-> final_record,
                 args |-> c]
     /\ report' = NoReport
     /\ found' = NoFound

(* temp_record = DecisionRecord(partial_data, hash="dummy_hash") is accepted *)
TempRecordValid(c, prev_hash) ==
  RecordValid(("hash" :> PStr("dummy_hash")) @@ PartialData(c, prev_hash))

(* one whole log_decision(c) call, no other appender running; "invalid" is  *)
(* the validation error of the record model, raised before anything is     *)
(* written                                                                  *)
LogDecision(c) ==
  /\ Len(store) < MaxLen
  /\ \A p \in Procs : pc[p] = "idle"
  /\ LET t == GetLastHash(store)
     IN IF t.raised
        THEN /\ ret' = [outcome |-> "raised"]
             /\ UNCHANGED <<store, nextId, report, found>>
        ELSE IF ~TempRecordValid(c, t.h)
        THEN /\ ret' = [outcome |-> "invalid", args |-> c]
             /\ UNCHANGED <<store, nextId, report, found>>
        ELSE AppendRecord(c, t.h)
  /\ UNCHANGED <<pc, prev, cand, tamperedAt, ncorrupt, scan>>

(* one whole log_decision(c) call whose write fails: the OSError of the     *)
(* write leaves log_decision uncaught, after both records were constructed  *)
LogDecisionWriteFails(c, accepted) ==
  /\ Len(store) < MaxLen
  /\ \A p \in Procs : pc[p] = "idle"
  /\ ~GetLastHash(store).raised
  /\ TempRecordValid(c, GetLastHash(store).h)
  /\ store' = FailedAppend(store, accepted)
  /\ nextId' = nextId + 1
  /\ ret' = [outcome |-> "write_error", before |-> store, args |-> c]
  /\ report' = NoReport
  /\ found' = NoFound
  /\ UNCHANGED <<pc, prev, cand, tamperedAt, ncorrupt, scan>>

(* appender p enters log_decision(c) and reads the tail hash *)
ReadTail(p, c) ==
  /\ pc[p] = "idle"
  /\ Len(store) + Cardinality({q \in Procs : pc[q] = "read"}) < MaxLen
  /\ LET t == GetLastHash(store)
     IN IF t.raised
        THEN /\ ret' = [outcome |-> "raised"]
             /\ UNCHANGED <<pc, prev, cand>>
        ELSE /\ pc' = [pc EXCEPT ![p] = "read"]
             /\ prev' = [prev EXCEPT ![p] = t.h]
             /\ cand' = [cand EXCEPT ![p] = c]
             /\ UNCHANGED ret
  /\ store' = Opened(store, TailOpenMode)
  /\ UNCHANGED <<nextId, report, found, tamperedAt, ncorrupt, scan>>

(* appender p builds its record from the tail hash it read and writes it *)
WriteRecord(p) ==
  /\ pc[p] = "read"
  /\ AppendRecord(cand[p], prev[p])
  /\ pc' = [pc EXCEPT ![p] = "idle"]
  /\ UNCHANGED <<prev, cand, tamperedAt, ncorrupt, scan>>

(* ---- cli.py: the log command ---- *)

(* a required_fields list that forgets one field *)
CliRequiredWithoutOutput == {"model", "config", "prompt", "context_sources"}

(* required_fields of the log command *)
CliRequired == {"model", "config", "prompt", "context_sources", "output"}

(* the keys the log command reads with data[...] *)
CliIndexed == {"model", "config", "prompt", "context_sources", "output"}

(* the arguments the log command passes: data.get(...) gives None when absent *)
CliArgs(data) ==
  [k \in CandidateKeys |-> IF k \in DOMAIN data THEN data[k] ELSE PNone]

(* one whole run of the log command on a decision file holding the object   *)
(* data: "invalid" is the missing-fields error, "error" a KeyError of       *)
(* data[...]; both are reported and abort the command                       *)
CliLog(data) ==
  IF ~(CliRequired \subseteq DOMAIN data)
  THEN /\ ret' = [outcome |-> "invalid", args |-> data]
       /\ UNCHANGED <<store, nextId, report, found, pc, prev, cand, tamperedAt,
                      ncorrupt, scan>>
  ELSE IF ~(CliIndexed \subseteq DOMAIN data)
  THEN /\ ret' = [outcome |-> "error", args |-> data]
       /\ UNCHANGED <<store, nextId, report, found, pc, prev, cand, tamperedAt,
                      ncorrupt, scan>>
  ELSE LogDecision(CliArgs(data))

(* one whole verify_chain() call *)
Verify ==
  /\ report = NoReport
  /\ report' = VerifyChain(store)
  /\ store' = Opened(store, VerifyOpenMode)
  /\ UNCHANGED <<nextId, ret, found, pc, prev, cand, tamperedAt, ncorrupt, scan>>

QueryIds == { Uuid(k) : k \in 1..(MaxLen + 1) }

(* one whole replay_decision(decision_id) call *)
Replay(decision_id) ==
  /\ found' = [query |-> decision_id] @@ ReplayDecision(store, decision_id)
  /\ found' # found
  /\ store' = Opened(store, ReplayOpenMode)
  /\ UNCHANGED <<nextId, ret, report, pc, prev, cand, tamperedAt, ncorrupt, scan>>

(* ---- edits of the file made outside the appender ---- *)

(* json.loads the line, set record[k] = v, json.dumps it back *)
EditedLine(line, k, v) ==
  LET keys == KeysOf(line)
      order == IF k \in Range(keys) THEN keys ELSE keys \o <<k>>
  IN DumpsInOrder((k :> v) @@ Loads(line).v.f, order)

(* json.loads the line, del record[k], json.dumps it back *)
StrippedLine(line, k) ==
  LET d == Loads(line).v.f
  IN DumpsInOrder([x \in (DOMAIN d) \ {k} |-> d[x]], KeysOf(line))

IsRecordLine(line) == line.j = "object"

Edited(i, line) ==
  /\ store' = [store EXCEPT ![i] = line]
  /\ store' # store
  /\ tamperedAt' = i
  /\ ncorrupt' = ncorrupt + 1
  /\ ret' = NoRet
  /\ report' = NoReport
  /\ found' = NoFound
  /\ UNCHANGED <<nextId, pc, prev, cand, scan>>

(* the value of one field of the record on line i is changed *)
EditField(i, k, v) ==
  /\ i \in 1..Len(store)
  /\ IsRecordLine(store[i])
  /\ Edited(i, EditedLine(store[i], k, v))

(* one field of the record on line i is removed *)
DropField(i, k) ==
  /\ i \in 1..Len(store)
  /\ IsRecordLine(store[i])
  /\ Edited(i, StrippedLine(store[i], k))

(* line i is overwritten by a text that is not a record *)
ReplaceLine(i, text) ==
  /\ i \in 1..Len(store)
  /\ Edited(i, text)

(* ======================= specifications ================================ *)

(* sequential use: whole calls, one at a time *)
Next ==
  \/ \E c \in Candidates : LogDecision(c)
  \/ Verify
  \/ \E id \in QueryIds : Replay(id)

Spec == Init /\ [][Next]_vars

(* calls that leave risk_flags out *)
PlainCandidates == { Candidate(cf, PNone) : cf \in Confidences }

(* a store built by sequential appends, then one content field of one       *)
(* record changed on disk, then verified                                     *)
ContentFields == Fields \ {"hash"}
TamperValues == {PStr("TAMPERED"), PInt(1)}

NextTamper ==
  \/ \E c \in PlainCandidates : ncorrupt = 0 /\ LogDecision(c)
  \/ \E i \in 1..MaxLen, k \in ContentFields, v \in TamperValues :
       ncorrupt = 0 /\ EditField(i, k, v)
  \/ Verify

SpecTamper == Init /\ [][NextTamper]_vars

(* two appenders whose calls may interleave: the code takes no lock *)
NextConc ==
  \/ \E p \in Procs, c \in PlainCandidates : ReadTail(p, c)
  \/ \E p \in Procs : WriteRecord(p)
  \/ Verify

SpecConc == Init /\ [][NextConc]_vars

(* any store content: appends, and lines edited, stripped or overwritten    *)
AnyCandidates == { Candidate(cf, PNone) : cf \in {PNone, PInt(1)} }
AnyEditFields == {"hash", "prev_hash", "output"}
AnyEditValues == {PStr("TAMPERED")}
AnyDropFields == {"hash", "prev_hash"}
AnyTexts == {JInvalid, JArray(<<>>)}

NextAny ==
  \/ \E c \in AnyCandidates : LogDecision(c)
  \/ \E i \in 1..MaxLen, k \in AnyEditFields, v \in AnyEditValues :
       ncorrupt < MaxCorrupt /\ EditField(i, k, v)
  \/ \E i \in 1..MaxLen, k \in AnyDropFields :
       ncorrupt < MaxCorrupt /\ DropField(i, k)
  \/ \E i \in 1..MaxLen, text \in AnyTexts :
       ncorrupt < MaxCorrupt /\ ReplaceLine(i, text)
  \/ Verify

SpecAny == Init /\ [][NextAny]_vars

(* the log command run on decision files, some lacking a required field or  *)
(* holding null for it                                                      *)
RequiredOfCandidate == CandidateKeys \ {"confidence", "risk_flags"}

CliComplete ==
  { [k \in RequiredOfCandidate \cup {"confidence"} |-> Candidate(cf, PNone)[k]] :
      cf \in {PNone, PFloat(1)} }

Without(data, k) == [x \in (DOMAIN data) \ {k} |-> data[x]]

CliInputs ==
  CliComplete
    \cup { Without(d, k) : d \in CliComplete, k \in RequiredOfCandidate }
    \cup { (k :> PNone) @@ d : d \in CliComplete, k \in {"model", "output"} }

NextCli ==
  \/ \E data \in CliInputs : CliLog(data)
  \/ Verify

SpecCli == Init /\ [][NextCli]_vars

(* lookups on a store that holds lines that are not records *)
LocateCandidates == { Candidate(PNone, PNone) }
LocateDropFields == {"hash"}

NextLocate ==
  \/ \E c \in LocateCandidates : LogDecision(c)
  \/ \E i \in 1..MaxLen, k \in LocateDropFields :
       ncorrupt < MaxCorrupt /\ DropField(i, k)
  \/ \E i \in 1..MaxLen, text \in AnyTexts :
       ncorrupt < MaxCorrupt /\ ReplaceLine(i, text)
  \/ \E id \in QueryIds : Replay(id)

SpecLocate == Init /\ [][NextLocate]_vars

(* appends whose write to the file may fail *)
WriteCandidates == { Candidate(cf, PNone) : cf \in {PNone, PFloat(1)} }

NextWrite ==
  \/ \E c \in WriteCandidates : nextId <= MaxCalls /\ LogDecision(c)
  \/ \E c \in WriteCandidates, accepted \in FailedWrites :
       nextId <= MaxCalls /\ LogDecisionWriteFails(c, accepted)
  \/ Verify

SpecWrite == Init /\ [][NextWrite]_vars

(* the three readers on any store content, next to appenders *)
NextRead ==
  \/ \E p \in Procs, c \in LocateCandidates : ReadTail(p, c)
  \/ \E p \in Procs : WriteRecord(p)
  \/ \E i \in 1..MaxLen, k \in LocateDropFields :
       ncorrupt < MaxCorrupt /\ DropField(i, k)
  \/ \E i \in 1..MaxLen, text \in AnyTexts :
       ncorrupt < MaxCorrupt /\ ReplaceLine(i, text)
  \/ Verify
  \/ \E id \in QueryIds : Replay(id)

SpecRead == Init /\ [][NextRead]_vars

(* ---- the reads of the file, byte by byte ---- *)

(* a file as its bytes: "n" is the newline, "x" any other byte *)
Bytes == {"n", "x"}
Files == UNION { [1..n -> Bytes] : n \in 0..MaxBytes }

(* "tail" is the read of get_last_hash, "iter" the loop over the lines of    *)
(* verify_chain and replay_decision                                          *)
ScanOps == {"tail", "iter"}

Calls == <<store, nextId, ret, report, found, pc, prev, cand, tamperedAt, ncorrupt>>

(* f.seek(-1, 1): the offset moves back by one byte only *)
SeekBackOne(pos) == pos - 1

(* f.seek(-2, 1) *)
SeekBack(pos) == pos - 2

(* the size test, then open and f.seek(-2, 2) of get_last_hash, or the      *)
(* start of the for loop; a seek before offset 0 raises OSError, which is   *)
(* caught by f.seek(0)                                                      *)
ScanStart ==
  /\ scan.mode = "start"
  /\ scan' =
       IF Len(scan.file) = 0 THEN [scan EXCEPT !.mode = "done"]
       ELSE IF scan.op = "iter" THEN [scan EXCEPT !.mode = "iter"]
       ELSE IF Len(scan.file) - 2 < 0 THEN [scan EXCEPT !.mode = "readline", !.pos = 0]
       ELSE [scan EXCEPT !.mode = "read1", !.pos = Len(scan.file) - 2]
  /\ UNCHANGED Calls

(* while f.read(1) != b'\n' *)
ScanRead ==
  /\ scan.mode = "read1"
  /\ scan' =
       IF scan.pos >= Len(scan.file) THEN [scan EXCEPT !.mode = "seek_back"]
       ELSE IF scan.file[scan.pos + 1] = "n"
       THEN [scan EXCEPT !.mode = "readline", !.pos = @ + 1]
       ELSE [scan EXCEPT !.mode = "seek_back", !.pos = @ + 1]
  /\ UNCHANGED Calls

(* f.seek(-2, 1) in the loop body, OSError caught by f.seek(0) *)
ScanSeekBack ==
  /\ scan.mode = "seek_back"
  /\ scan' =
       IF SeekBack(scan.pos) < 0 THEN [scan EXCEPT !.mode = "readline", !.pos = 0]
       ELSE [scan EXCEPT !.mode = "read1", !.pos = SeekBack(scan.pos)]
  /\ UNCHANGED Calls

(* f.readline(), one byte at a time: up to a newline or the end of the file *)
ScanReadline ==
  /\ scan.mode = "readline"
  /\ scan' =
       IF scan.pos >= Len(scan.file) THEN [scan EXCEPT !.mode = "done"]
       ELSE IF scan.file[scan.pos + 1] = "n"
       THEN [scan EXCEPT !.mode = "done", !.pos = @ + 1, !.got = @ + 1]
       ELSE [scan EXCEPT !.pos = @ + 1, !.got = @ + 1]
  /\ UNCHANGED Calls

(* for line in f, one byte at a time: `lines` counts the lines handed to    *)
(* the loop body; the loop ends at the end of the file                      *)
ScanIter ==
  /\ scan.mode = "iter"
  /\ scan' =
       IF scan.pos >= Len(scan.file) THEN [scan EXCEPT !.mode = "done"]
       ELSE IF scan.file[scan.pos + 1] = "n" \/ scan.pos + 1 = Len(scan.file)
       THEN [scan EXCEPT !.pos = @ + 1, !.lines = @ + 1]
       ELSE [scan EXCEPT !.pos = @ + 1]
  /\ UNCHANGED Calls

InitScan ==
  /\ InitCalls
  /\ scan \in { [mode |-> "start", op |-> o, file |-> f, pos |-> 0, got |-> 0, lines |-> 0] :
                  o \in ScanOps, f \in Files }

NextScan ==
  \/ ScanStart
  \/ ScanRead
  \/ ScanSeekBack
  \/ ScanReadline
  \/ ScanIter

(* a read that can take a step takes it: nothing in the code waits *)
SpecScan == InitScan /\ [][NextScan]_vars /\ WF_vars(NextScan)

(* ======================= properties ==================================== *)

(* the dict json.loads gives for line i of the store *)
ParsedLine(i) == Loads(store[i]).v.f

(* line i is a JSON object that has the keys verify_chain reads *)
WellFormed(i) ==
  /\ store[i].j = "object"
  /\ {"prev_hash", "hash"} \subseteq Range(KeysOf(store[i]))

Verified == report # NoReport
FindingsOn(i) == { f \in report.findings : f[1] = i }

(* C1: a store extended only by sequential log_decision calls is reported   *)
(* overall-valid by verify_chain, with no finding on any line.              *)
C1_SequentialAppendsVerifyValid ==
  Verified =>
    /\ report.outcome = "returned"
    /\ report.is_valid
    /\ report.findings = {}

(* C2: after one content field of the record on line i of an appended store *)
(* is changed, verify_chain returns invalid with a tamper finding on line i, *)
(* a chain-link finding on line i+1 when it exists, and no finding on any   *)
(* other line.                                                              *)
C2_TamperIsolated ==
  (Verified /\ tamperedAt > 0) =>
    /\ report.outcome = "returned"
    /\ ~report.is_valid
    /\ <<tamperedAt, "tamper">> \in report.findings
    /\ tamperedAt < Len(store) => <<tamperedAt + 1, "link">> \in report.findings
    /\ \A f \in report.findings : f[1] \in {tamperedAt, tamperedAt + 1}

(* C3: every line log_decision writes carries the hash of its own stored    *)
(* content: hash = digest(canonicalize(the parsed line except hash)).       *)
C3_StoredHashIsContentHash ==
  \A i \in 1..Len(store) :
    ParsedLine(i)["hash"] = CalculateHash(ParsedLine(i))

(* C4: in a store built by sequential appends the first record's prev_hash  *)
(* is the genesis digest and every later record's prev_hash is the content  *)
(* hash of the record before it.                                            *)
C4_ChainLinkage ==
  \A i \in 1..Len(store) :
    ParsedLine(i)["prev_hash"] =
      IF i = 1 THEN Genesis ELSE CalculateHash(ParsedLine(i - 1))

(* C5: appends are serialized: never two appenders between their tail read *)
(* and their write, and no two stored records with the same prev_hash.      *)
C5_AppendsSerialized ==
  /\ Cardinality({p \in Procs : pc[p] = "read"}) <= 1
  /\ \A i, j \in 1..Len(store) :
       i < j => ParsedLine(i)["prev_hash"] # ParsedLine(j)["prev_hash"]

(* C6: when two appenders wrote records with the same prev_hash (a fork),   *)
(* verify_chain returns invalid with a chain-link finding on the record     *)
(* that landed second and no finding on the one that landed first.          *)
C6_ForkDetected ==
  Verified =>
    \A i, j \in 1..Len(store) :
      (i < j /\ ParsedLine(i)["prev_hash"] = ParsedLine(j)["prev_hash"]) =>
        /\ report.outcome = "returned"
        /\ ~report.is_valid
        /\ <<j, "link">> \in report.findings
        /\ FindingsOn(i) = {}

(* C7: verify_chain processes every line of any store and returns a report, *)
(* with a finding for each line that is not a well-formed record.           *)
C7_VerifyNeverAborts ==
  Verified =>
    /\ report.outcome = "returned"
    /\ report.scanned = Len(store)
    /\ \A i \in 1..Len(store) : ~WellFormed(i) => FindingsOn(i) # {}

(* line i passes every check verify_chain makes: it parses as a record, its *)
(* hash is its recomputed content hash, and its prev_hash is the genesis    *)
(* digest (first line) or the recomputed content hash of the line before    *)
LinePasses(i) ==
  /\ WellFormed(i)
  /\ ParsedLine(i)["hash"] = CalculateHash(ParsedLine(i))
  /\ i = 1 => ParsedLine(i)["prev_hash"] = Genesis
  /\ (i > 1 /\ store[i - 1].j = "object") =>
       ParsedLine(i)["prev_hash"] = CalculateHash(ParsedLine(i - 1))

AllLinesPass == \A i \in 1..Len(store) : LinePasses(i)

(* C8: verify_chain returns overall-valid exactly when every line parses,   *)
(* links to its predecessor and carries its own content hash; a returned    *)
(* report is valid exactly when it has no finding.                          *)
C8_ValidIffAllLinesPass ==
  Verified =>
    /\ (report.outcome = "returned" /\ report.is_valid) <=> AllLinesPass
    /\ report.outcome = "returned" => (report.is_valid <=> report.findings = {})

(* a failing line followed by a passing last line, reported invalid *)
C8_Witness ==
  /\ Verified
  /\ report.outcome = "returned"
  /\ ~report.is_valid
  /\ Len(store) >= 2
  /\ FindingsOn(Len(store)) = {}
  /\ \E i \in 1..(Len(store) - 1) : FindingsOn(i) # {}

(* the store as it was before the last successful append *)
StoreBefore == SubSeq(store, 1, Len(store) - 1)

(* the lines of `lines` that parse as a record with a hash field *)
ParsedWithHash(lines) ==
  { i \in 1..Len(lines) :
      lines[i].j = "object" /\ "hash" \in Range(KeysOf(lines[i])) }

Max(S) == CHOOSE x \in S : \A y \in S : y <= x

(* C9 (as stated): the tail hash an append uses is the hash field of the    *)
(* last successfully parsed record of the store, whatever the final line    *)
(* is; it is the genesis digest only for an empty store.                    *)
C9_TailIsLastParsedRecord ==
  /\ ret.outcome # "raised"
  /\ ret.outcome = "logged" =>
       LET good == ParsedWithHash(StoreBefore)
       IN /\ good # {} =>
               ret.prev_hash = Loads(StoreBefore[Max(good)]).v.f["hash"]
          /\ ret.prev_hash = Genesis => StoreBefore = <<>>

(* C9 (amended): the tail hash is decided by the final line alone: its hash *)
(* field when that line is a JSON object with a hash field; the genesis     *)
(* digest when the store is empty, the final line is not valid JSON, or it  *)
(* is an object without hash; a final line that is valid JSON but not an    *)
(* object makes the call raise, and nothing is appended.                    *)
C9_TailFromFinalLine ==
  /\ ret.outcome = "logged" =>
       LET before == StoreBefore
           last == before[Len(before)]
       IN IF before = <<>> THEN ret.prev_hash = Genesis
          ELSE /\ last.j \in {"object", "invalid"}
               /\ ret.prev_hash =
                    IF Len(before) \in ParsedWithHash(before)
                    THEN Loads(last).v.f["hash"]
                    ELSE Genesis
  /\ ret.outcome = "raised" =>
       /\ store # <<>>
       /\ store[Len(store)].j \notin {"object", "invalid"}

(* an append after a corrupted final line that follows a sound record *)
C9_Witness ==
  /\ ret.outcome = "logged"
  /\ Len(store) = 3
  /\ 1 \in ParsedWithHash(StoreBefore)
  /\ 2 \notin ParsedWithHash(StoreBefore)
  /\ ret.prev_hash = Genesis
  /\ ParsedLine(3)["prev_hash"] = Genesis

(* the lines whose record carries decision_id id *)
LinesWithId(id) ==
  { i \in 1..Len(store) : ParsedLine(i)["decision_id"] = id }

(* C10: after sequential appends, replay_decision finds the record that     *)
(* carries the queried decision_id, exactly as stored and as returned by    *)
(* the append, and returns not-found, without raising, for an identifier    *)
(* no stored record carries.                                                *)
C10_AppendThenLocate ==
  found # NoFound =>
    /\ found.outcome # "raised"
    /\ LinesWithId(found.query) = {} => found.outcome = "notfound"
    /\ LinesWithId(found.query) # {} =>
         /\ found.outcome = "found"
         /\ LinesWithId(found.query) = {found.line}
         /\ found.record = ParsedLine(found.line)
         /\ (ret.outcome = "logged" /\ ret.record["decision_id"] = found.query) =>
              found.record = ret.record

(* the second record appended is looked up and found *)
C10_Witness ==
  /\ found # NoFound
  /\ found.outcome = "found"
  /\ found.line = 2
  /\ ret.outcome = "logged"
  /\ ret.record["decision_id"] = found.query

(* the call's arguments lack a required field, or hold None for it *)
MissingRequired(args) ==
  \E k \in RequiredOfCandidate : k \notin DOMAIN args \/ args[k] = PNone

C11_Step ==
  /\ ret'.outcome = "invalid" => (store' = store /\ nextId' = nextId)
  /\ (ret'.outcome \in {"logged", "invalid", "error"} /\ MissingRequired(ret'.args)) =>
       ret'.outcome = "invalid"

(* C11: an append whose candidate lacks a required field (model, config,    *)
(* prompt, context_sources, output) fails with a validation error and       *)
(* leaves the store as it was: same lines, same length.                     *)
C11_InvalidAppendNoEffect == [][C11_Step]_vars

(* a candidate without output was refused on a store that holds a record *)
C11_Witness ==
  /\ ret.outcome = "invalid"
  /\ "output" \notin DOMAIN ret.args
  /\ Len(store) >= 1

(* C12: on an empty store (no file, or a file of length zero) verify_chain  *)
(* returns overall-valid with no finding.                                   *)
C12_EmptyStoreValid ==
  (Verified /\ store = <<>>) =>
    /\ report.outcome = "returned"
    /\ report.is_valid
    /\ report.findings = {}
    /\ report.scanned = 0

(* verify_chain has run on the empty store *)
C12_Witness == Verified /\ store = <<>>

(* the record lines before line j *)
RecordsBefore(j) == { i \in 1..(j - 1) : store[i].j = "object" }

(* the recomputed hash of the last record before line j, lines that do not  *)
(* decode being passed over; the genesis digest if there is none            *)
ExpectedPrev(j) ==
  IF RecordsBefore(j) = {} THEN Genesis
  ELSE CalculateHash(ParsedLine(Max(RecordsBefore(j))))

(* C13: a line that does not decode gets a decode finding, makes the result *)
(* invalid and leaves expected_prev as it was: the next record's prev_hash  *)
(* is compared with the recomputed hash of the last record before the gap,  *)
(* or with the genesis digest if there is none.                             *)
C13_DecodeGap ==
  Verified =>
    \A j \in 1..report.scanned :
      IF store[j].j = "invalid"
      THEN /\ FindingsOn(j) = {<<j, "json">>}
           /\ ~report.is_valid
      ELSE <<j, "link">> \in report.findings
             <=> ParsedLine(j)["prev_hash"] # ExpectedPrev(j)

(* a record appended after a line that does not decode: it carries the      *)
(* genesis digest and is compared with the hash of the record before the gap *)
C13_Witness ==
  /\ Verified
  /\ report.outcome = "returned"
  /\ Len(store) = 3
  /\ store[1].j = "object"
  /\ store[2].j = "invalid"
  /\ store[3].j = "object"
  /\ ParsedLine(3)["prev_hash"] = Genesis
  /\ report.findings = {<<2, "json">>, <<3, "link">>}

(* a valid chain in which only the stored hash field of line i was altered: *)
(* every line is a record, every prev_hash is the content hash of the line  *)
(* before, and every stored hash but that of line i is the content hash     *)
OtherwiseValid(i) ==
  /\ i \in 1..Len(store)
  /\ \A j \in 1..Len(store) : WellFormed(j)
  /\ \A j \in 1..Len(store) :
       ParsedLine(j)["prev_hash"] =
         (IF j = 1 THEN Genesis ELSE CalculateHash(ParsedLine(j - 1)))
  /\ \A j \in 1..Len(store) :
       (ParsedLine(j)["hash"] = CalculateHash(ParsedLine(j))) <=> j # i

(* C14: in an otherwise valid chain, an altered stored hash on line i gives *)
(* exactly one finding, a tamper finding on line i, and no link finding on  *)
(* any later line.                                                          *)
C14_ExpectedPrevIsRecomputed ==
  \A i \in 1..MaxLen :
    (Verified /\ OtherwiseValid(i)) =>
      /\ report.outcome = "returned"
      /\ report.findings = {<<i, "tamper">>}
      /\ ~report.is_valid

(* the altered line is followed by another record *)
C14_Witness ==
  /\ Verified
  /\ OtherwiseValid(1)
  /\ Len(store) >= 2
  /\ ParsedLine(1)["hash"] = PStr("TAMPERED")

(* the lines that parse as a record carrying decision_id id *)
RecordsWithId(id) ==
  { i \in 1..Len(store) :
      /\ store[i].j = "object"
      /\ "decision_id" \in DOMAIN ParsedLine(i)
      /\ ParsedLine(i)["decision_id"] = id
      /\ RecordValid(ParsedLine(i)) }

Min(S) == CHOOSE x \in S : \A y \in S : x <= y

(* C15: replay_decision passes over every line that does not parse as a     *)
(* record and returns the first record carrying the queried decision_id;    *)
(* no line (invalid JSON, JSON that is not an object, an object with the    *)
(* matching id that fails validation) makes the lookup raise.               *)
C15_LookupSkipsMalformed ==
  found # NoFound =>
    /\ found.outcome # "raised"
    /\ RecordsWithId(found.query) = {} => found.outcome = "notfound"
    /\ RecordsWithId(found.query) # {} =>
         /\ found.outcome = "found"
         /\ found.line = Min(RecordsWithId(found.query))

(* C16: when the write of an append fails, the store is what it was before  *)
(* the call, and no store holds a partly written record line.               *)
C16_FailedWriteLeavesChain ==
  /\ \A i \in 1..Len(store) : ~Unterminated(store[i])
  /\ ret.outcome = "write_error" => store = ret.before

(* a step in which log_decision returns a record *)
C17_Step ==
  (ret'.outcome = "logged" /\ nextId' = nextId + 1) =>
    /\ Len(store') = Len(store) + 1
    /\ SubSeq(store', 1, Len(store)) = store
    /\ store'[Len(store')] = RecordJson(ret'.record)

(* C17: a successful append changes the store only by adding one line at    *)
(* the end: the lines before it keep their content and position, the length *)
(* grows by one, the new last line is the record returned.                  *)
C17_AppendAddsOneLine == [][C17_Step]_vars

(* a step of one of the three readers *)
ReadStep ==
  \/ Verify
  \/ \E id \in QueryIds : Replay(id)
  \/ \E p \in Procs, c \in Candidates : ReadTail(p, c)

(* C18: verify_chain, replay_decision and get_last_hash leave the store as  *)
(* it was, whatever it holds and whatever they return.                      *)
C18_ReadersLeaveStore == [][ReadStep => store' = store]_vars

(* the three readers have run on a store that holds an edited line, the     *)
(* tail read while the other two results stand                              *)
C18_Witness ==
  /\ store # <<>>
  /\ ncorrupt >= 1
  /\ Verified
  /\ found # NoFound
  /\ \E p \in Procs : pc[p] = "read"

(* C19: every read of the file ends: the loop over the lines at the end of  *)
(* the file, the backward scan of get_last_hash at a newline or at the      *)
(* start of the file, for every file content.                               *)
C19_ReadsTerminate == <>(scan.mode = "done")

(* the backward scan has ended on a file of several bytes with no newline,  *)
(* and the whole file was read as the last line                             *)
C19_Witness ==
  /\ scan.mode = "done"
  /\ scan.op = "tail"
  /\ Len(scan.file) >= 3
  /\ \A i \in 1..Len(scan.file) : scan.file[i] = "x"
  /\ scan.got = Len(scan.file)

(* C20: when verify_chain returns valid on a store, whatever built it, the  *)
(* tail hash a following log_decision reads is the verifier's last          *)
(* previous_hash, and verify_chain returns valid on the extended store.     *)
C20_AppendPreservesValidity ==
  (ret.outcome = "logged" /\ Verified) =>
    LET before == VerifyChain(StoreBefore)
    IN (before.outcome = "returned" /\ before.is_valid) =>
         /\ ret.prev_hash = before.previous_hash
         /\ report.outcome = "returned"
         /\ report.is_valid

====
